---- MODULE Spec2Model ----
(***************************************************************************)
(* sequence_storages: a key-value store of (header, sequence) records in   *)
(* front of three backends (one FASTA file, a folder of FASTA files, a tar *)
(* archive of FASTA members), with pending deleted/updated sets and an LRU *)
(* cache, and a deferred commit.                                           *)
(*                                                                         *)
(* Strings are sequences of one-character strings, so that the record      *)
(* codec (to_fasta, readline, strip, clean_header) is modelled by what it  *)
(* does to the characters.  Handles are built with wrap unset              *)
(* (base_storage.py:14), the default.                                      *)
(***************************************************************************)
EXTENDS Integers, Sequences, FiniteSets, TLC

\* ------------------------------------------------------------------------
\* Bounds of the model
\* ------------------------------------------------------------------------
\* The cache behaviours construct handles with cache_size 1..MaxCacheSize + 1.
MaxCacheSize == 1
\* Largest number of commit calls with pending changes in one behaviour.
MaxCommits == 2
\* Largest number of handles opened on the path in one behaviour.
MaxOpens == 2
\* Largest number of records set in one round-trip run.
MaxMapping == 2
\* Largest number of entries of a store found on the path by the indexing
\* behaviours.
MaxEntries == 3

\* ------------------------------------------------------------------------
\* Characters and strings
\* ------------------------------------------------------------------------
NL == "\n"
Marker == ">"
\* Results that are not character strings are one-token sequences, so that they
\* compare with strings and differ from every string of characters.
NoneValue == <<"None">>
ValueError == <<"ValueError">>
KeyError == <<"KeyError">>
FileNotFoundError == <<"FileNotFoundError">>
Ok == <<"ok">>
True == <<"True">>
False == <<"False">>
\* cache_size=None (base_storage.py:12) is modelled as a negative size.
Unset == -1

\* str.strip(): the whitespace of the model's alphabet.
IsSpace(c) == c \in {" ", NL}

RECURSIVE LStrip(_)
LStrip(s) == IF s # <<>> /\ IsSpace(Head(s)) THEN LStrip(Tail(s)) ELSE s

RECURSIVE RStrip(_)
RStrip(s) ==
    IF s # <<>> /\ IsSpace(s[Len(s)]) THEN RStrip(SubSeq(s, 1, Len(s) - 1)) ELSE s

Strip(s) == RStrip(LStrip(s))

\* str.startswith(">")
StartsWithMarker(s) == s # <<>> /\ Head(s) = Marker

\* utils.clean_header: ValueError unless the raw line starts with the marker.
clean_header(header) ==
    IF ~StartsWithMarker(header) THEN ValueError ELSE Strip(Tail(header))

\* utils.to_fasta with wrap unset: f">{header}\n{sequence}\n".
to_fasta(header, sequence) == <<Marker>> \o header \o <<NL>> \o sequence \o <<NL>>

\* The characters re_clean_filename replaces, within the model's alphabet.
UnsafeChars == {"/", "?", NL}

\* utils.clean_filename: every unsafe character becomes "_".
clean_filename(s) == [i \in 1..Len(s) |-> IF s[i] \in UnsafeChars THEN "_" ELSE s[i]]

\* f"{cleaned}.fasta" if i == 0 else f"{cleaned}_{i}.fasta"
FastaName(cleaned, i) ==
    IF i = 0 THEN cleaned \o <<".fasta">>
    ELSE cleaned \o <<"_", ToString(i), ".fasta">>

\* ------------------------------------------------------------------------
\* Text streams: a file body is a sequence of characters, positions are
\* 0-based offsets as returned by tell().
\* ------------------------------------------------------------------------
RECURSIVE LineEnd(_, _)
LineEnd(text, i) ==
    IF i >= Len(text) THEN Len(text)
    ELSE IF text[i] = NL THEN i ELSE LineEnd(text, i + 1)

\* fi.readline() at offset pos: up to and including the next newline, "" at EOF.
ReadLine(text, pos) ==
    IF pos >= Len(text) THEN <<>> ELSE SubSeq(text, pos + 1, LineEnd(text, pos + 1))

\* The loop of _read_one_sequence: stripped lines up to a blank or marker line.
RECURSIVE ReadSequenceLines(_, _)
ReadSequenceLines(text, pos) ==
    LET raw == ReadLine(text, pos)
        line == Strip(raw)
    IN IF line = <<>> \/ StartsWithMarker(line) THEN <<>>
       ELSE line \o ReadSequenceLines(text, pos + Len(raw))

\* fasta_storage._read_one_sequence(fi, position=position)
read_one_sequence(text, position) ==
    LET raw == ReadLine(text, position)
        header == clean_header(raw)
    IN IF header = ValueError THEN [err |-> ValueError, header |-> <<>>, sequence |-> <<>>]
       ELSE [err |-> Ok, header |-> header,
             sequence |-> ReadSequenceLines(text, position + Len(raw))]

\* fasta_storage._iter_header_positions: (header, offset) of every marker line.
RECURSIVE iter_header_positions(_, _)
iter_header_positions(text, pos) ==
    LET line == ReadLine(text, pos)
    IN IF line = <<>> THEN <<>>
       ELSE (IF StartsWithMarker(line)
             THEN <<[key |-> clean_header(line), val |-> pos]>>
             ELSE <<>>) \o iter_header_positions(text, pos + Len(line))

\* The readlines() loop of _read_first_from_file / _read_first_from_buf:
\* stripped lines up to the first marker line (blank lines do not stop it).
RECURSIVE ReadFirstLines(_, _)
ReadFirstLines(text, pos) ==
    LET raw == ReadLine(text, pos)
        line == Strip(raw)
    IN IF raw = <<>> \/ StartsWithMarker(line) THEN <<>>
       ELSE line \o ReadFirstLines(text, pos + Len(raw))

\* folder_storage._read_first_from_file and tar_storage._read_first_from_buf
read_first(text) ==
    LET raw == ReadLine(text, 0)
        header == clean_header(raw)
    IN IF header = ValueError THEN [err |-> ValueError, header |-> <<>>, sequence |-> <<>>]
       ELSE [err |-> Ok, header |-> header, sequence |-> ReadFirstLines(text, Len(raw))]

\* ------------------------------------------------------------------------
\* Ordered dictionaries: a sequence of [key, val] with distinct keys.
\* ------------------------------------------------------------------------
Keys(d) == {d[i].key : i \in 1..Len(d)}
KeyList(d) == [i \in 1..Len(d) |-> d[i].key]
Has(d, k) == k \in Keys(d)
Lookup(d, k) == (CHOOSE i \in 1..Len(d) : d[i].key = k)
Get(d, k) == d[Lookup(d, k)].val

\* del d[k]
Del(d, k) == SelectSeq(d, LAMBDA e : e.key # k)

\* d[k] = v : an existing key keeps its position, a new key goes last.
Put(d, k, v) ==
    IF Has(d, k) THEN [i \in 1..Len(d) |-> IF d[i].key = k THEN [key |-> k, val |-> v] ELSE d[i]]
    ELSE Append(d, [key |-> k, val |-> v])

\* OrderedDict.move_to_end(k)
MoveToEnd(d, k) == Append(Del(d, k), [key |-> k, val |-> Get(d, k)])

\* OrderedDict.popitem(last=False)
PopFirst(d) == Tail(d)

\* All orderings of a finite set (iteration order of a Python set).
RECURSIVE Orders(_)
Orders(S) ==
    IF S = {} THEN {<<>>}
    ELSE UNION {{<<x>> \o o : o \in Orders(S \ {x})} : x \in S}

RECURSIVE Flatten(_)
Flatten(chunks) == IF chunks = <<>> THEN <<>> ELSE Head(chunks) \o Flatten(Tail(chunks))

\* ------------------------------------------------------------------------
\* State
\* ------------------------------------------------------------------------
VARIABLES
    kind,         \* "fasta" | "folder" | "tar": the class of the handle
    cache_size,   \* self._cache_size: Unset or an integer
    autocommit,   \* self._autocommit
    disk,         \* fasta: the characters of the file at the path;
                  \* folder: the files of the directory, in enumeration order;
                  \* tar: the members of the archive at the path
    path_exists,  \* whether the path exists
    cache,        \* self._cache, in recency order
    deleted,      \* self._deleted
    updated,      \* self._updated, in insertion order
    index,        \* the backend's lazy index: [built, map]
    scope,        \* "open" | "exiting" | "released": the with-block of the handle
    pc,           \* "idle" | "write" | "renamed": position inside a rewriting commit
    todo,         \* records commit has still to write to the temporary file
    temp,         \* records written to the temporary file object
    flushed,      \* how many of them have reached the temporary file on disk
    pre,          \* history: what the path held when the running commit began
    last,         \* history: the last completed call and its result
    lru,          \* history: the cached headers by recency of use through get
    ref,          \* history: per header, the last set or delete through this handle
    prev,         \* history: ref of the handle opened before this one
    ncommits,     \* history: commit calls with pending changes so far
    nopens        \* history: handles opened so far

handle == <<cache, deleted, updated, index>>
config == <<kind, cache_size, autocommit>>
store == <<disk, path_exists>>
progress == <<pc, todo, temp, flushed, pre>>
vars == <<kind, cache_size, autocommit, disk, path_exists, cache, deleted, updated,
          index, scope, pc, todo, temp, flushed, pre, last, lru, ref, prev,
          ncommits, nopens>>

Kinds == {"fasta", "folder", "tar"}

\* The headers and sequences callers use.
Headers == {<<"A">>, <<"B">>}
Sequences == {<<"C">>, <<"G", "G">>}

\* The cache_size a handle is constructed with: None, or an integer (with
\* two headers, a cache of 2 or more never overflows).
CacheSizes == {Unset, 0, 1}

\* The headers of the behaviours that fill and use the cache.
CacheHeaders == {<<"A">>, <<"B">>, <<"D">>}

\* The headers and sequences of the round-trip behaviours: some with
\* surrounding whitespace, a marker, a line break or unsafe characters.
RTHeaders == {<<"A">>, <<" ", "A">>, <<"A", "/">>, <<"A", "?">>}
RTSequences == {<<"C">>, <<" ", "C">>, <<">", "C">>, <<"C", NL, "G">>}

AllHeaders == Headers \cup CacheHeaders \cup RTHeaders

Untouched == <<"untouched">>
Deleted == <<"deleted">>
NoRef == [h \in AllHeaders |-> Untouched]

NoIndex == [built |-> FALSE, map |-> <<>>]
NoPre == [exists |-> FALSE, content |-> <<>>]

\* ------------------------------------------------------------------------
\* Backends: index construction
\* ------------------------------------------------------------------------
\* FastaStorage._build_index: the first occurrence of a header wins.
RECURSIVE FirstWins(_, _)
FirstWins(entries, n) ==
    IF n = 0 THEN <<>>
    ELSE LET d == FirstWins(entries, n - 1)
         IN IF Has(d, entries[n].key) THEN d ELSE Append(d, entries[n])

build_index(text) ==
    LET entries == iter_header_positions(text, 0) IN FirstWins(entries, Len(entries))

\* The loop of FolderStorage._header_to_path: a file whose first line is no
\* header is skipped; a later file with the same header replaces the path.
RECURSIVE header_to_path_loop(_, _)
header_to_path_loop(files, n) ==
    IF n = 0 THEN <<>>
    ELSE LET d == header_to_path_loop(files, n - 1)
             header == clean_header(ReadLine(files[n].body, 0))
         IN IF header = ValueError THEN d ELSE Put(d, header, files[n].name)

\* The loop of TarStorage._header_to_tar_info_name: the first member with a
\* header wins; a member whose first line is no header raises ValueError and
\* leaves the entries collected so far in the field.
RECURSIVE header_to_tar_info_name_loop(_, _)
header_to_tar_info_name_loop(members, n) ==
    IF n = 0 THEN [err |-> Ok, map |-> <<>>]
    ELSE LET r == header_to_tar_info_name_loop(members, n - 1)
             header == clean_header(ReadLine(members[n].body, 0))
         IN IF r.err # Ok THEN r
            ELSE IF header = ValueError THEN [err |-> ValueError, map |-> r.map]
            ELSE IF Has(r.map, header) THEN r
            ELSE [err |-> Ok, map |-> Append(r.map, [key |-> header, val |-> members[n].name])]

\* An access to the index property of the handle: the value it returns (or the
\* error it raises) and the value of the private field afterwards.
\* The field is assigned the map that was built and the property returns it
\* (or raises err).
Built(err, map) == [err |-> err, map |-> map, field |-> [built |-> TRUE, map |-> map]]
BuiltTar(r) == Built(r.err, r.map)

\* FastaStorage._index, with the private field holding `field`
fasta_index(field) ==
    IF field.built THEN [err |-> Ok, map |-> field.map, field |-> field]
    ELSE Built(Ok, build_index(disk))

\* FolderStorage._header_to_path
folder_header_to_path(field) ==
    IF field.built THEN [err |-> Ok, map |-> field.map, field |-> field]
    ELSE Built(Ok, header_to_path_loop(disk, Len(disk)))

\* TarStorage._header_to_tar_info_name
tar_header_to_tar_info_name(field) ==
    IF ~path_exists THEN [err |-> Ok, map |-> <<>>, field |-> field]
    ELSE IF field.built THEN [err |-> Ok, map |-> field.map, field |-> field]
    ELSE BuiltTar(header_to_tar_info_name_loop(disk, Len(disk)))

IndexOf(field) ==
    CASE kind = "fasta" -> fasta_index(field)
      [] kind = "folder" -> folder_header_to_path(field)
      [] kind = "tar" -> tar_header_to_tar_info_name(field)

\* The index as this handle sees it.
SourceIndex == IndexOf(index)

\* ------------------------------------------------------------------------
\* Backends: reading one record
\* ------------------------------------------------------------------------
FileNames(files) == {files[i].name : i \in 1..Len(files)}

\* The body under a name: for an archive, the last member of that name.
FileBody(files, name) ==
    files[CHOOSE i \in 1..Len(files) :
            files[i].name = name /\ \A j \in (i + 1)..Len(files) : files[j].name # name].body

\* The record at a location of the index.
ReadAt(loc) ==
    CASE kind = "fasta" -> read_one_sequence(disk, loc)
      [] kind = "folder" ->
            IF loc \in FileNames(disk) THEN read_first(FileBody(disk, loc))
            ELSE [err |-> FileNotFoundError, header |-> <<>>, sequence |-> <<>>]
      [] kind = "tar" ->
            IF loc \in FileNames(disk) THEN read_first(FileBody(disk, loc))
            ELSE [err |-> KeyError, header |-> <<>>, sequence |-> <<>>]

\* The end of _get_from_source: the record r read at the indexed location is
\* returned unless it raised or its header is not the key.
checked_sequence(key, r) ==
    IF r.err # Ok THEN [err |-> r.err, val |-> NoneValue]
    ELSE IF r.header # key THEN [err |-> Ok, val |-> NoneValue]
    ELSE [err |-> Ok, val |-> r.sequence]

\* _get_from_source given the index ix the property returned.
get_from_index(key, ix) ==
    IF ix.err # Ok THEN [err |-> ix.err, val |-> NoneValue]
    ELSE IF ~Has(ix.map, key) THEN [err |-> Ok, val |-> NoneValue]
    ELSE checked_sequence(key, ReadAt(Get(ix.map, key)))

\* _get_from_source of the three backends: the sequence, NoneValue, or the
\* error raised; field is the index field afterwards.
WithField(r, ix) == [err |-> r.err, val |-> r.val, field |-> ix.field]
SourceLookup(key, ix) == WithField(get_from_index(key, ix), ix)
get_from_source(key) == SourceLookup(key, SourceIndex)

\* _contains_in_source of the three backends.
contains_in_index(key, ix) ==
    [err |-> ix.err, val |-> ix.err = Ok /\ Has(ix.map, key), field |-> ix.field]
contains_in_source(key) == contains_in_index(key, SourceIndex)

\* BaseSequenceStorage._get_headers_of_updated_items
get_headers_of_updated_items == deleted \cup Keys(updated)

\* ------------------------------------------------------------------------
\* Storage core: the operations of BaseSequenceStorage as functions of the state
\* ------------------------------------------------------------------------
\* `if self._cache_size and ...`: None and 0 are both false.
Truthy(n) == n # Unset /\ n # 0

\* Mutant: the newest entry is popped instead of the oldest.
put_to_cache_pops_newest(c, key, sequence) ==
    LET c1 == Put(c, key, sequence)
    IN IF Truthy(cache_size) /\ Len(c1) > cache_size THEN SubSeq(c1, 1, Len(c1) - 1) ELSE c1

\* BaseSequenceStorage._put_to_cache
put_to_cache(c, key, sequence) ==
    LET c1 == Put(c, key, sequence)
    IN IF Truthy(cache_size) /\ Len(c1) > cache_size THEN PopFirst(c1) ELSE c1

\* The end of __getitem__, with r what _get_from_source returned or raised.
getitem_from_source(key, r) ==
    IF r.err # Ok THEN [res |-> r.err, cache |-> cache, field |-> r.field]
    ELSE IF r.val = NoneValue THEN [res |-> KeyError, cache |-> cache, field |-> r.field]
    ELSE [res |-> r.val, cache |-> put_to_cache(cache, key, r.val), field |-> r.field]

\* Mutant: a pending update is not looked at.
getitem_ignores_updated(key) ==
    IF key \in deleted THEN [res |-> KeyError, cache |-> cache, field |-> index]
    ELSE IF Has(cache, key)
         THEN [res |-> Get(cache, key), cache |-> MoveToEnd(cache, key), field |-> index]
    ELSE getitem_from_source(key, get_from_source(key))

\* Mutant: the deleted set is not looked at.
getitem_ignores_deleted(key) ==
    IF Has(updated, key) THEN [res |-> Get(updated, key), cache |-> cache, field |-> index]
    ELSE IF Has(cache, key)
         THEN [res |-> Get(cache, key), cache |-> MoveToEnd(cache, key), field |-> index]
    ELSE getitem_from_source(key, get_from_source(key))

\* BaseSequenceStorage.__getitem__: the result (a sequence or the error raised),
\* the cache and the index field afterwards.
getitem(key) ==
    IF key \in deleted THEN [res |-> KeyError, cache |-> cache, field |-> index]
    ELSE IF Has(updated, key) THEN [res |-> Get(updated, key), cache |-> cache, field |-> index]
    ELSE IF Has(cache, key)
         THEN [res |-> Get(cache, key), cache |-> MoveToEnd(cache, key), field |-> index]
    ELSE getitem_from_source(key, get_from_source(key))

\* Mutant: the cached copy is kept.
setitem_keeps_cache(key, sequence) ==
    [deleted |-> deleted \ {key},
     cache |-> cache,
     updated |-> MoveToEnd(Put(updated, key, sequence), key)]

\* Mutant: the header stays marked as deleted.
setitem_keeps_deleted(key, sequence) ==
    [deleted |-> deleted,
     cache |-> Del(cache, key),
     updated |-> MoveToEnd(Put(updated, key, sequence), key)]

\* Mutant: a header already in updated keeps its position.
setitem_keeps_position(key, sequence) ==
    [deleted |-> deleted \ {key},
     cache |-> Del(cache, key),
     updated |-> Put(updated, key, sequence)]

\* BaseSequenceStorage.__setitem__
setitem(key, sequence) ==
    [deleted |-> deleted \ {key},
     cache |-> Del(cache, key),
     updated |-> MoveToEnd(Put(updated, key, sequence), key)]

\* Mutant: the cached copy of a deleted header is kept.
delitem_keeps_cache(key) ==
    [updated |-> Del(updated, key),
     cache |-> cache,
     deleted |-> deleted \cup {key}]

\* BaseSequenceStorage.__delitem__
delitem(key) ==
    [updated |-> Del(updated, key),
     cache |-> Del(cache, key),
     deleted |-> deleted \cup {key}]

\* The end of __contains__, with r what _contains_in_source returned or raised.
contains_result(r) ==
    [res |-> IF r.err # Ok THEN r.err ELSE IF r.val THEN True ELSE False, field |-> r.field]

\* BaseSequenceStorage.__contains__
contains(key) ==
    IF key \in deleted THEN [res |-> False, field |-> index]
    ELSE IF Has(updated, key) THEN [res |-> True, field |-> index]
    ELSE IF Has(cache, key) THEN [res |-> True, field |-> index]
    ELSE contains_result(contains_in_source(key))

\* headers() of the three backends: the indexed headers that are neither
\* deleted nor updated, then the updated ones.
headers_from(ix, updated_headers) ==
    [err |-> ix.err,
     val |-> SelectSeq(KeyList(ix.map), LAMBDA h : h \notin updated_headers)
               \o KeyList(updated),
     field |-> ix.field]
headers == headers_from(SourceIndex, get_headers_of_updated_items)

FirstError(reads) ==
    IF \A i \in 1..Len(reads) : reads[i].err = Ok THEN Ok
    ELSE reads[CHOOSE i \in 1..Len(reads) :
                 reads[i].err # Ok /\ \A j \in 1..(i - 1) : reads[j].err = Ok].err

\* items() of the three backends: the records read at the indexed locations
\* that are neither deleted nor updated, then the updated ones.
items_read(reads, err, field) ==
    IF err # Ok THEN [err |-> err, val |-> <<>>, field |-> field]
    ELSE [err |-> Ok,
          val |-> [i \in 1..Len(reads) |->
                     [key |-> reads[i].header, val |-> reads[i].sequence]] \o updated,
          field |-> field]
items_at(reads, field) == items_read(reads, FirstError(reads), field)
items_kept(kept, field) == items_at([i \in 1..Len(kept) |-> ReadAt(kept[i].val)], field)
items_from(ix, updated_headers) ==
    IF ix.err # Ok THEN [err |-> ix.err, val |-> <<>>, field |-> ix.field]
    ELSE items_kept(SelectSeq(ix.map, LAMBDA e : e.key \notin updated_headers), ix.field)
items == items_from(SourceIndex, get_headers_of_updated_items)

\* ------------------------------------------------------------------------
\* Commit
\* ------------------------------------------------------------------------
\* Mutant: commit never returns early.
always_something_to_commit == FALSE

\* `if not (self._deleted or self._updated)`: nothing to commit.
nothing_to_commit == ~(deleted # {} \/ updated # <<>>)

\* Mutant: the name is not checked against the names taken.
FirstFreeNameUnchecked(cleaned, taken) == FastaName(cleaned, 0)

\* The loop `i = 0; while True: ...; i += 1` of the two name generators: the
\* first i whose name is not taken.
FirstFreeName(cleaned, taken) ==
    LET i == CHOOSE i \in 0..Cardinality(taken) :
                /\ FastaName(cleaned, i) \notin taken
                /\ \A j \in 0..(i - 1) : FastaName(cleaned, j) \in taken
    IN FastaName(cleaned, i)

\* FastaStorage.commit, the records written to the temporary file.
fasta_records_of(it) ==
    [err |-> it.err,
     chunks |-> [i \in 1..Len(it.val) |-> to_fasta(it.val[i].key, it.val[i].val)],
     field |-> it.field]
fasta_commit_records == fasta_records_of(items)

\* TarStorage._get_new_filename_generator applied to the records in turn.
RECURSIVE tar_members(_, _, _)
tar_members(its, header_to_filename, existing_filenames) ==
    IF its = <<>> THEN <<>>
    ELSE LET header == Head(its).key
             known == Has(header_to_filename, header)
             filename == IF known THEN Get(header_to_filename, header)
                         ELSE FirstFreeName(clean_filename(header), existing_filenames)
         IN <<[name |-> filename, body |-> to_fasta(header, Head(its).val)]>>
            \o tar_members(Tail(its),
                           IF known THEN header_to_filename
                           ELSE Put(header_to_filename, header, filename),
                           existing_filenames \cup {filename})

\* TarStorage.commit, the members added to the temporary archive.
tar_records_of(ix, it) ==
    IF ix.err # Ok THEN [err |-> ix.err, chunks |-> <<>>, field |-> ix.field]
    ELSE [err |-> it.err,
          chunks |-> tar_members(it.val, ix.map, {ix.map[i].val : i \in 1..Len(ix.map)}),
          field |-> it.field]
tar_commit_records == tar_records_of(tar_header_to_tar_info_name(index), items)

\* What the path holds when the temporary file's records are all there.
Content(chunks) == IF kind = "fasta" THEN Flatten(chunks) ELSE chunks

\* Mutant: the files of the deleted headers stay.
unlink_deleted_keeps_files(files, order, header_to_path) == [err |-> Ok, files |-> files]

\* `self._header_to_path[header].unlink()` for the deleted headers in the
\* order the set yields them.
RECURSIVE unlink_deleted(_, _, _)
unlink_deleted(files, order, header_to_path) ==
    IF order = <<>> THEN [err |-> Ok, files |-> files]
    ELSE IF ~Has(header_to_path, Head(order)) THEN [err |-> KeyError, files |-> files]
    ELSE LET path == Get(header_to_path, Head(order))
         IN IF path \notin FileNames(files) THEN [err |-> FileNotFoundError, files |-> files]
            ELSE unlink_deleted(SelectSeq(files, LAMBDA f : f.name # path),
                                Tail(order), header_to_path)

\* open(path, "w") and write: an existing file is truncated in place, a new
\* one is added to the directory.
WriteFile(files, path, body) ==
    IF path \in FileNames(files)
    THEN [i \in 1..Len(files) |->
            IF files[i].name = path THEN [name |-> path, body |-> body] ELSE files[i]]
    ELSE Append(files, [name |-> path, body |-> body])

\* The helper of FolderStorage._get_new_path_generator.
get_new_path(header, generated, files) ==
    IF Has(generated, header) THEN Get(generated, header)
    ELSE FirstFreeName(clean_filename(header), FileNames(files))

\* The loop over self._updated of FolderStorage.commit.
RECURSIVE write_updated(_, _, _, _)
write_updated(files, its, header_to_path, generated) ==
    IF its = <<>> THEN files
    ELSE LET header == Head(its).key
             path == IF Has(header_to_path, header) THEN Get(header_to_path, header)
                     ELSE get_new_path(header, generated, files)
         IN write_updated(WriteFile(files, path, to_fasta(header, Head(its).val)),
                          Tail(its), header_to_path, Put(generated, header, path))

\* FolderStorage.commit with pending changes.
folder_commit_writes(un, ix) ==
    IF un.err # Ok THEN [err |-> un.err, disk |-> un.files, field |-> ix.field]
    ELSE [err |-> Ok,
          disk |-> write_updated(un.files, updated, ix.map, ix.map),
          field |-> ix.field]
folder_commit_with(order, ix) ==
    folder_commit_writes(unlink_deleted(disk, order, ix.map), ix)
folder_commit(order) == folder_commit_with(order, folder_header_to_path(index))

\* ------------------------------------------------------------------------
\* Initial states: a handle just constructed on a path
\* ------------------------------------------------------------------------
\* The stores a behaviour starts from, as the records they were written from.
InitialRecords ==
    {<<>>,
     <<[key |-> <<"A">>, val |-> <<"C">>], [key |-> <<"B">>, val |-> <<"G", "G">>]>>}

\* The persisted form of a list of records with distinct clean headers.
StoreOf(k, records) ==
    IF k = "fasta"
    THEN Flatten([i \in 1..Len(records) |-> to_fasta(records[i].key, records[i].val)])
    ELSE [i \in 1..Len(records) |->
            [name |-> FastaName(clean_filename(records[i].key), 0),
             body |-> to_fasta(records[i].key, records[i].val)]]

NoCall == [op |-> "new", key |-> <<>>, res |-> Ok, view |-> <<>>,
           victim |-> {}, flag |-> FALSE]

\* FastaStorage.__init__ touches a missing file, FolderStorage.__init__ makes
\* the directory, TarStorage.__init__ leaves the path alone.
ExistsAfterInit(k, exists) == IF k = "tar" THEN exists ELSE TRUE

InitHandle ==
    /\ cache = <<>>
    /\ deleted = {}
    /\ updated = <<>>
    /\ index = NoIndex
    /\ scope = "open"
    /\ pc = "idle"
    /\ todo = <<>>
    /\ temp = <<>>
    /\ flushed = 0
    /\ pre = NoPre
    /\ last = NoCall
    /\ lru = <<>>
    /\ ref = NoRef
    /\ prev = NoRef
    /\ ncommits = 0
    /\ nopens = 1

Init ==
    /\ kind \in Kinds
    /\ cache_size \in CacheSizes
    /\ autocommit \in BOOLEAN
    /\ \E records \in InitialRecords :
          /\ disk = StoreOf(kind, records)
          /\ path_exists = ExistsAfterInit(kind, records # <<>>)
    /\ InitHandle

\* ------------------------------------------------------------------------
\* Actions: one per call on the handle
\* ------------------------------------------------------------------------
Idle == pc = "idle" /\ scope = "open"

Call(op, key, res) == [NoCall EXCEPT !.op = op, !.key = key, !.res = res]

Without(l, key) == SelectSeq(l, LAMBDA h : h # key)

\* storage[key]
GetitemReturns(key, r) ==
    /\ Idle
    /\ LET served == key \notin deleted /\ ~Has(updated, key)
                     /\ r.res \notin {KeyError, ValueError, FileNotFoundError}
           used == Append(Without(lru, key), key)
           over == served /\ cache_size >= 1 /\ Len(used) > cache_size
       IN /\ cache' = r.cache
          /\ index' = r.field
          /\ lru' = IF ~served THEN lru ELSE IF over THEN Tail(used) ELSE used
          /\ last' = [Call("get", key, r.res) EXCEPT
                         !.victim = IF over THEN {Head(used)} ELSE {},
                         !.flag = served /\ ~Has(cache, key)]
    /\ UNCHANGED <<config, store, deleted, updated, scope, progress, ref, prev, ncommits,
                   nopens>>

\* storage[key] = sequence
Setitem(key, sequence) ==
    /\ Idle
    /\ LET r == setitem(key, sequence)
       IN /\ deleted' = r.deleted
          /\ cache' = r.cache
          /\ updated' = r.updated
    /\ lru' = Without(lru, key)
    /\ ref' = [ref EXCEPT ![key] = sequence]
    /\ last' = [Call("set", key, sequence) EXCEPT !.flag = key \in deleted]
    /\ UNCHANGED <<config, store, index, scope, progress, prev, ncommits, nopens>>

Getitem(key) == GetitemReturns(key, getitem(key))

\* del storage[key]
Delitem(key) ==
    /\ Idle
    /\ LET r == delitem(key)
       IN /\ deleted' = r.deleted
          /\ cache' = r.cache
          /\ updated' = r.updated
    /\ lru' = Without(lru, key)
    /\ ref' = [ref EXCEPT ![key] = Deleted]
    /\ last' = Call("delete", key, Ok)
    /\ UNCHANGED <<config, store, index, scope, progress, prev, ncommits, nopens>>

\* Mutant: a header the backend answers for is put into the cache.
ContainsReturnsCaching(key, r) ==
    /\ Idle
    /\ index' = r.field
    /\ cache' = IF r.res = True /\ ~Has(updated, key) /\ ~Has(cache, key)
                THEN put_to_cache(cache, key, <<"C">>) ELSE cache
    /\ last' = Call("contains", key, r.res)
    /\ UNCHANGED <<config, store, deleted, updated, scope, progress, lru, ref, prev,
                   ncommits, nopens>>

\* key in storage
ContainsReturns(key, r) ==
    /\ Idle
    /\ index' = r.field
    /\ last' = Call("contains", key, r.res)
    /\ UNCHANGED <<config, store, cache, deleted, updated, scope, progress, lru, ref, prev,
                   ncommits, nopens>>

Contains(key) == ContainsReturns(key, contains(key))

\* list(storage.headers())
ViewReturns(op, r) ==
    /\ Idle
    /\ index' = r.field
    /\ last' = [Call(op, <<>>, r.err) EXCEPT !.view = r.val]
    /\ UNCHANGED <<config, store, cache, deleted, updated, scope, progress, lru, ref, prev,
                   ncommits, nopens>>

HeadersCall == ViewReturns("headers", headers)

\* list(storage.items())
ItemsCall == ViewReturns("items", items)

Running == <<"running">>
Skipped == <<"skipped">>
\* The exception in flight when the with-block is left by a failure.
InFlight == <<"Exception">>

\* commit() of the three backends, called by the caller (op = "commit") or by
\* __exit__ (op = "exit").  FolderStorage.commit is one step; FastaStorage.commit
\* and TarStorage.commit go on through CommitWrite, CommitRename, CommitClose.
Released(op) == IF op = "exit" THEN "released" ELSE scope

\* FolderStorage.commit has run, with result r.
FolderCommitted(op, r) ==
    /\ disk' = r.disk
    /\ index' = r.field
    /\ last' = [Call(op, <<>>, r.err) EXCEPT !.flag = TRUE]
    /\ scope' = Released(op)
    /\ UNCHANGED <<path_exists, progress>>

\* FastaStorage.commit or TarStorage.commit has opened the temporary file and
\* has the records r to write, or has raised.
RewriteBegun(op, r) ==
    /\ index' = r.field
    /\ UNCHANGED store
    /\ IF r.err # Ok
       THEN /\ last' = [Call(op, <<>>, r.err) EXCEPT !.flag = TRUE]
            /\ scope' = Released(op)
            /\ UNCHANGED progress
       ELSE /\ pc' = "write"
            /\ todo' = r.chunks
            /\ temp' = <<>>
            /\ flushed' = 0
            /\ pre' = [exists |-> path_exists, content |-> disk]
            /\ last' = [Call(op, <<>>, Running) EXCEPT !.flag = TRUE]
            /\ scope' = IF op = "exit" THEN "exiting" ELSE scope

CommitCall(op) ==
    /\ UNCHANGED <<config, cache, deleted, updated, lru, ref, prev, nopens>>
    /\ IF nothing_to_commit
       THEN /\ last' = Call(op, <<>>, Ok)
            /\ scope' = Released(op)
            /\ UNCHANGED <<store, index, progress, ncommits>>
       ELSE /\ ncommits < MaxCommits
            /\ ncommits' = ncommits + 1
            /\ CASE kind = "folder" ->
                       \E order \in Orders(deleted) : FolderCommitted(op, folder_commit(order))
                 [] kind = "fasta" -> RewriteBegun(op, fasta_commit_records)
                 [] kind = "tar" -> RewriteBegun(op, tar_commit_records)

\* Mutant: the release commits although autocommit is off.
NoAutocommitCommits == CommitCall("exit")

\* BaseSequenceStorage.__exit__ without an exception in flight: no commit
\* unless autocommit is set.
NoAutocommit ==
    /\ scope' = "released"
    /\ last' = Call("exit", <<>>, Skipped)
    /\ UNCHANGED <<config, store, handle, progress, lru, ref, prev, ncommits, nopens>>

\* storage.commit(), or leaving the with-block normally.
CommitOrExit(op) ==
    /\ Idle
    /\ IF op = "exit" /\ ~autocommit THEN NoAutocommit ELSE CommitCall(op)

Commit == CommitOrExit("commit")
ExitNormal == CommitOrExit("exit")

\* __exit__ with an exception in flight: logged, no commit; __exit__ returns
\* None, so the exception goes on to the caller of the with-block.
ExitFail ==
    /\ Idle
    /\ scope' = "released"
    /\ last' = Call("exit_fail", <<>>, InFlight)
    /\ UNCHANGED <<config, store, handle, progress, lru, ref, prev, ncommits, nopens>>

\* temp.write(fasta) / tar.addfile(...): one more record goes to the temporary
\* file object; its buffer may or may not be flushed to the file on disk.
CommitWrite ==
    /\ pc = "write"
    /\ todo # <<>>
    /\ temp' = Append(temp, Head(todo))
    /\ todo' = Tail(todo)
    /\ flushed' \in {flushed, Len(temp) + 1}
    /\ UNCHANGED <<config, store, handle, scope, pc, pre, last, lru, ref, prev, ncommits, nopens>>

\* Path(temp.name).rename(self._path), inside the `with` of the temporary
\* file: the path now names the temporary file, which holds what was flushed.
CommitRename ==
    /\ pc = "write"
    /\ todo = <<>>
    /\ disk' = Content(SubSeq(temp, 1, flushed))
    /\ path_exists' = TRUE
    /\ pc' = "renamed"
    /\ UNCHANGED <<config, handle, scope, todo, temp, flushed, pre, last, lru, ref, prev,
                   ncommits, nopens>>

\* The `with` of the temporary file ends (the file is closed, its buffer
\* written out), then the index is dropped and commit returns.
CommitClose ==
    /\ pc = "renamed"
    /\ disk' = Content(temp)
    /\ index' = NoIndex
    /\ pc' = "idle"
    /\ todo' = <<>>
    /\ temp' = <<>>
    /\ flushed' = 0
    /\ pre' = NoPre
    /\ last' = [last EXCEPT !.res = Ok]
    /\ scope' = IF scope = "exiting" THEN "released" ELSE scope
    /\ UNCHANGED <<config, path_exists, cache, deleted, updated, lru, ref, prev, ncommits, nopens>>

\* A new handle of the same class and options on the same path.
Reopen ==
    /\ pc = "idle"
    /\ scope = "released"
    /\ nopens < MaxOpens
    /\ nopens' = nopens + 1
    /\ path_exists' = ExistsAfterInit(kind, path_exists)
    /\ cache' = <<>>
    /\ deleted' = {}
    /\ updated' = <<>>
    /\ index' = NoIndex
    /\ scope' = "open"
    /\ lru' = <<>>
    /\ last' = NoCall
    /\ ref' = NoRef
    /\ prev' = ref
    /\ UNCHANGED <<config, disk, progress, ncommits>>

DoGet == \E key \in Headers : Getitem(key)
DoSet == \E key \in Headers, sequence \in Sequences : Setitem(key, sequence)
DoDelete == \E key \in Headers : Delitem(key)
DoContains == \E key \in Headers : Contains(key)

Next ==
    \/ DoGet
    \/ DoSet
    \/ DoDelete
    \/ DoContains
    \/ Commit
    \/ ExitNormal
    \/ ExitFail
    \/ CommitWrite
    \/ CommitRename
    \/ CommitClose

Spec == Init /\ [][Next]_vars

\* ------------------------------------------------------------------------
\* Round-trip behaviours: an empty store, a handle with autocommit that sets
\* records and is released, a new handle that lists the items.
\* ------------------------------------------------------------------------
InitRT ==
    /\ kind \in Kinds
    /\ cache_size = Unset
    /\ autocommit = TRUE
    /\ disk = StoreOf(kind, <<>>)
    /\ path_exists = ExistsAfterInit(kind, FALSE)
    /\ InitHandle

Touched(r) == {h \in AllHeaders : r[h] # Untouched}

RTSet ==
    /\ nopens = 1
    /\ \E key \in RTHeaders, sequence \in RTSequences :
          /\ Cardinality(Touched(ref) \cup {key}) <= MaxMapping
          /\ Setitem(key, sequence)

RTItems == nopens = 2 /\ last.op # "items" /\ ItemsCall

NextRT ==
    \/ RTSet
    \/ ExitNormal
    \/ CommitWrite
    \/ CommitRename
    \/ CommitClose
    \/ Reopen
    \/ RTItems

SpecRT == InitRT /\ [][NextRT]_vars

\* ------------------------------------------------------------------------
\* Cache behaviours: a store of three records, a bounded cache.
\* ------------------------------------------------------------------------
CacheRecords ==
    <<[key |-> <<"A">>, val |-> <<"C">>], [key |-> <<"B">>, val |-> <<"G", "G">>],
      [key |-> <<"D">>, val |-> <<"C", "G">>]>>

InitCache ==
    /\ kind \in Kinds
    /\ cache_size \in 1..(MaxCacheSize + 1)
    /\ autocommit = TRUE
    /\ disk = StoreOf(kind, CacheRecords)
    /\ path_exists = TRUE
    /\ InitHandle

CacheGet == \E key \in CacheHeaders : Getitem(key)
CacheSet == \E key \in CacheHeaders : Setitem(key, <<"G">>)
CacheDelete == \E key \in CacheHeaders : Delitem(key)
CacheContains == \E key \in CacheHeaders : Contains(key)

NextCache ==
    \/ CacheGet
    \/ CacheSet
    \/ CacheDelete
    \/ CacheContains
    \/ Commit
    \/ CommitWrite
    \/ CommitRename
    \/ CommitClose

SpecCache == InitCache /\ [][NextCache]_vars

\* ------------------------------------------------------------------------
\* Listing behaviours: an empty store or a store of three records, a handle
\* that sets, deletes, commits and lists the headers.
\* ------------------------------------------------------------------------
InitView ==
    /\ kind \in Kinds
    /\ cache_size = Unset
    /\ autocommit = TRUE
    /\ \E records \in {<<>>, CacheRecords} :
          /\ disk = StoreOf(kind, records)
          /\ path_exists = ExistsAfterInit(kind, records # <<>>)
    /\ InitHandle

NextView ==
    \/ CacheSet
    \/ CacheDelete
    \/ HeadersCall
    \/ Commit
    \/ CommitWrite
    \/ CommitRename
    \/ CommitClose

SpecView == InitView /\ [][NextView]_vars

\* ------------------------------------------------------------------------
\* First-commit behaviours: a store of two records, a handle that reads, sets
\* and deletes, commits once and is released, a new handle that lists the
\* items.
\* ------------------------------------------------------------------------
StoredRecords ==
    <<[key |-> <<"A">>, val |-> <<"C">>], [key |-> <<"B">>, val |-> <<"G", "G">>]>>

\* The sequences set before the commit, one with leading whitespace.
CommitSequences == {<<"G">>, <<" ", "G">>}

InitCommit ==
    /\ kind \in Kinds
    /\ cache_size = Unset
    /\ autocommit \in BOOLEAN
    /\ disk = StoreOf(kind, StoredRecords)
    /\ path_exists = TRUE
    /\ InitHandle

BeforeCommit == nopens = 1 /\ ncommits = 0

FirstGet == BeforeCommit /\ CacheGet
FirstSet ==
    /\ BeforeCommit
    /\ \E key \in CacheHeaders, sequence \in CommitSequences : Setitem(key, sequence)
FirstDelete == BeforeCommit /\ CacheDelete
FirstCommit == BeforeCommit /\ ~autocommit /\ Commit
FirstRelease == nopens = 1 /\ (autocommit => ncommits = 0) /\ ExitNormal

NextCommit ==
    \/ FirstGet
    \/ FirstSet
    \/ FirstDelete
    \/ FirstCommit
    \/ FirstRelease
    \/ CommitWrite
    \/ CommitRename
    \/ CommitClose
    \/ Reopen
    \/ RTItems

SpecCommit == InitCommit /\ [][NextCommit]_vars

\* ------------------------------------------------------------------------
\* Indexing behaviours: a path holding entries written by others, some with
\* the same header, some without a header line; a handle that reads.
\* ------------------------------------------------------------------------
EntryBodies ==
    {to_fasta(<<"A">>, <<"C">>), to_fasta(<<"A">>, <<"G", "G">>),
     to_fasta(<<"B">>, <<"G", "G">>), <<"C", NL>>}

EntryName(i) == <<"f", ToString(i), ".fasta">>

\* The path holding the entries `bodies`: the records of one file, or the
\* files of the directory or the members of the archive in enumeration order.
FoundStore(k, bodies) ==
    IF k = "fasta" THEN Flatten(bodies)
    ELSE [i \in 1..Len(bodies) |-> [name |-> EntryName(i), body |-> bodies[i]]]

InitIndex ==
    /\ kind \in Kinds
    /\ cache_size = Unset
    /\ autocommit = TRUE
    /\ \E n \in 0..MaxEntries : \E bodies \in [1..n -> EntryBodies] :
          disk = FoundStore(kind, bodies)
    /\ path_exists = TRUE
    /\ InitHandle

NextIndex ==
    \/ DoGet
    \/ DoContains
    \/ HeadersCall
    \/ ItemsCall

SpecIndex == InitIndex /\ [][NextIndex]_vars

\* ------------------------------------------------------------------------
\* Properties
\* ------------------------------------------------------------------------
Chars(str) == {str[i] : i \in 1..Len(str)}

\* What the path holds, as a new handle would index and read it.
Persisted(key) == get_from_index(key, IndexOf(NoIndex)).val

InBackend(key) == Persisted(key) # NoneValue

\* A header or sequence that the record format carries unchanged: no
\* surrounding whitespace, no line break, and no marker opening a sequence.
CleanHeader(h) == Strip(h) = h /\ NL \notin Chars(h)
CleanSequence(q) == Strip(q) = q /\ NL \notin Chars(q) /\ ~StartsWithMarker(q)

Pairs(view) == {<<view[i].key, view[i].val>> : i \in 1..Len(view)}
Mapping(r) == {<<h, r[h]>> : h \in Touched(r)}
CleanMapping(r) == \A h \in Touched(r) : CleanHeader(h) /\ CleanSequence(r[h])

\* The first handle of a round trip has set its records and was released,
\* and the second handle has listed its items.
RoundTripDone == nopens = 2 /\ last.op = "items"

\* C1 (as stated): for every mapping of headers to sequences, the items of a
\* new handle are exactly the records set through the released one.
RoundTripAnyMapping ==
    RoundTripDone =>
        /\ last.res = Ok
        /\ Pairs(last.view) = Mapping(prev)
        /\ Len(last.view) = Cardinality(Touched(prev))

\* C1 (amended): the same for every mapping whose headers and sequences have
\* no surrounding whitespace and no line break and whose sequences do not
\* begin with the marker.
RoundTripCleanMapping ==
    (RoundTripDone /\ CleanMapping(prev)) =>
        /\ last.res = Ok
        /\ Pairs(last.view) = Mapping(prev)
        /\ Len(last.view) = Cardinality(Touched(prev))

\* Two clean records whose file names collide have made the round trip.
RoundTripWitness ==
    /\ RoundTripDone
    /\ CleanMapping(prev)
    /\ Touched(prev) = {<<"A", "/">>, <<"A", "?">>}

\* C2: every header is in at most one of deleted, updated and cache.
PendingDisjoint ==
    \A h \in AllHeaders :
        /\ ~(h \in deleted /\ Has(updated, h))
        /\ ~(h \in deleted /\ Has(cache, h))
        /\ ~(Has(updated, h) /\ Has(cache, h))

\* After a commit one header is marked deleted and the other, read from the
\* backend, is cached.
PendingDisjointWitness ==
    /\ last.op = "get"
    /\ deleted # {}
    /\ cache # <<>>
    /\ ncommits > 0

\* A commit with pending changes has returned without error.
Committed == pc = "idle" /\ last.op \in {"commit", "exit"} /\ last.flag /\ last.res = Ok

\* C3: after a successful commit with pending changes, deleted and updated
\* are empty.
CommitDrainsPending == Committed => (deleted = {} /\ updated = <<>>)

\* C4: get agrees with the reference dictionary: the last set, NotFound after
\* the last delete, and what the backend holds for a header never mutated.
Expected(h) ==
    IF ref[h] = Deleted THEN KeyError
    ELSE IF ref[h] # Untouched THEN ref[h]
    ELSE IF InBackend(h) THEN Persisted(h) ELSE KeyError

GetAgreesWithReference ==
    Idle => \A h \in Headers : getitem(h).res = Expected(h)

\* After a commit, one header is set, one is served from the cache.
GetAgreesWitness ==
    /\ Idle
    /\ ncommits > 0
    /\ \E h \in Headers : Has(updated, h)
    /\ \E h \in Headers : Has(cache, h)

\* C5: get right after delete fails with KeyError.
GetAfterDeleteFails ==
    (Idle /\ last.op = "delete") => getitem(last.key).res = KeyError

\* A header the backend holds was deleted before any commit.
GetAfterDeleteWitness ==
    /\ Idle
    /\ last.op = "delete"
    /\ InBackend(last.key)
    /\ ncommits = 0

\* C6: set on a deleted header removes it from deleted; contains is true and
\* get returns the sequence set.
SetUndeletes ==
    (Idle /\ last.op = "set" /\ last.flag) =>
        /\ last.key \notin deleted
        /\ contains(last.key).res = True
        /\ getitem(last.key).res = last.res

\* A deleted header absent from the backend was set after a commit.
SetUndeletesWitness ==
    /\ Idle
    /\ last.op = "set"
    /\ last.flag
    /\ ~InBackend(last.key)
    /\ ncommits > 0

\* C7: with capacity C >= 1 the cache holds the C most recently used headers
\* in order of use; a get that overfills it evicts exactly the least recently
\* used one.
CacheIsLRU ==
    /\ KeyList(cache) = lru
    /\ Len(cache) <= cache_size
    /\ (last.op = "get" /\ last.victim # {}) =>
          /\ last.victim \cap Keys(cache) = {}
          /\ Len(cache) = cache_size
          /\ last.key \in Keys(cache)

\* With capacity 2, a third header was read and the least recently used of
\* the two cached ones went.
CacheIsLRUWitness ==
    /\ cache_size = 2
    /\ last.op = "get"
    /\ last.victim # {}
    /\ Len(cache) = 2

\* C8: a handle constructed with an integer cache_size C >= 0 never caches
\* more than C entries.
CacheBounded == cache_size # Unset => Len(cache) <= cache_size

\* C9: during a commit of the single-file or archive backend the path holds
\* either the complete old content or the complete new content.
PathState == [exists |-> path_exists, content |-> disk]
NewState == [exists |-> TRUE, content |-> Content(temp \o todo)]

CommitAtomic == pc # "idle" => PathState \in {pre, NewState}

\* C10: a commit called with deleted and updated empty returns at once and
\* leaves the store, the cache and the pending sets as they were.
NoopCommitStep ==
    (Idle /\ deleted = {} /\ updated = <<>> /\ last'.op \in {"commit", "exit"}
          /\ last'.res # Skipped)
    => (pc' = "idle" /\ last'.res = Ok
        /\ UNCHANGED <<disk, path_exists, cache, deleted, updated>>)

NoopCommit == [][NoopCommitStep]_vars

\* A commit with nothing pending has returned on an archive path that does
\* not exist, or with a cached record.
NoopCommitWitness ==
    /\ last.op = "commit"
    /\ ~last.flag
    /\ last.res = Ok
    /\ (kind = "tar" /\ ~path_exists) \/ cache # <<>>

NoRepeats(l) == \A i, j \in 1..Len(l) : l[i] = l[j] => i = j

\* headers() has returned: the indexed headers that have no pending change,
\* in index order, then the headers of updated in insertion order.
HeadersListed ==
    last'.op = "headers" =>
        /\ last'.res = Ok
        /\ NoRepeats(last'.view)
        /\ last'.view =
              SelectSeq(KeyList(index'.map),
                        LAMBDA h : h \notin deleted /\ h \notin Keys(updated))
                \o KeyList(updated)

\* A set puts the header last in updated and keeps the order of the others; a
\* delete takes the header out.
UpdatedOrdered ==
    /\ last'.op = "set" =>
          KeyList(updated') = Append(Without(KeyList(updated), last'.key), last'.key)
    /\ last'.op = "delete" => KeyList(updated') = Without(KeyList(updated), last'.key)

\* C11: headers() yields, without repeats, the indexed headers that are neither
\* deleted nor updated in index order, then the headers of updated in
\* insertion order, a repeated set moving its header to the last position.
HeadersOrder == [][HeadersListed /\ UpdatedOrdered]_vars

\* On an empty store three headers were set, the first one twice, and listed.
HeadersOrderWitness ==
    /\ last.op = "headers"
    /\ disk = StoreOf(kind, <<>>)
    /\ last.view = <<<<"B">>, <<"D">>, <<"A">>>>

\* The step in which the with-block of the handle is left.
Releasing == scope = "open" /\ scope' # "open"

\* C12: on release, commit is called exactly when the with-block ended
\* normally and autocommit is set; on a failure the store is left as it was
\* and the exception goes on to the caller.
ReleaseStep ==
    Releasing =>
        /\ (last'.res \notin {Skipped, InFlight}) <=> (last'.op = "exit" /\ autocommit)
        /\ last'.op = "exit_fail" =>
              /\ last'.res = InFlight
              /\ pc' = "idle"
              /\ UNCHANGED <<disk, path_exists, cache, deleted, updated, ncommits>>

ReleaseCommits == [][ReleaseStep]_vars

\* A handle with autocommit and pending changes was released by a failure.
ReleaseCommitsWitness ==
    /\ last.op = "exit_fail"
    /\ autocommit
    /\ deleted # {}
    /\ updated # <<>>

\* C13: contains changes neither the cache (entries and order) nor deleted
\* nor updated.
ContainsStep ==
    (Idle /\ last'.op = "contains") => UNCHANGED <<cache, deleted, updated>>

ContainsIsPure == [][ContainsStep]_vars

\* contains was answered by the backend for a header that is not cached,
\* while another one is.
ContainsIsPureWitness ==
    /\ last.op = "contains"
    /\ last.res = True
    /\ ~Has(cache, last.key)
    /\ ~Has(updated, last.key)
    /\ cache # <<>>

\* The records a store holds after the first handle's changes r were
\* committed to the records `records`.
AfterCommit(records, r) ==
    {<<records[i].key, records[i].val>> :
        i \in {j \in 1..Len(records) : r[records[j].key] = Untouched}}
    \cup {<<h, r[h]>> : h \in {g \in Touched(r) : r[g] # Deleted}}

\* The first handle committed once, every header it deleted being in the
\* backend, and the second handle has listed its items.
FirstCommitRead ==
    /\ nopens = 2
    /\ last.op = "items"
    /\ ncommits = 1
    /\ \A h \in AllHeaders : prev[h] = Deleted => h \in Keys(StoredRecords)

\* C14 (as stated): after the first commit a new handle reads the untouched
\* records unchanged, the updated records with the sequences set, and no
\* deleted record.
CommitAppliedAnySequence ==
    FirstCommitRead =>
        /\ last.res = Ok
        /\ Pairs(last.view) = AfterCommit(StoredRecords, prev)
        /\ NoRepeats(KeyList(last.view))

\* C14 (amended): the same when the headers and sequences set have no
\* surrounding whitespace and no line break and the sequences do not begin
\* with the marker.
CommitApplied ==
    (FirstCommitRead /\ CleanMapping(prev)) =>
        /\ last.res = Ok
        /\ Pairs(last.view) = AfterCommit(StoredRecords, prev)
        /\ NoRepeats(KeyList(last.view))

\* One stored header was deleted, the other one and a new one were set.
CommitAppliedWitness ==
    /\ FirstCommitRead
    /\ prev[<<"A">>] = Deleted
    /\ prev[<<"B">>] = <<"G">>
    /\ prev[<<"D">>] = <<"G">>

\* C15: a successful commit with pending changes leaves the index unset, and
\* the index the handle then answers from has exactly the headers the path
\* holds.
CommitDropsIndex ==
    Committed =>
        /\ index = NoIndex
        /\ Keys(SourceIndex.map) = Keys(IndexOf(NoIndex).map)

\* The header a file or member carries on its first line.
HeaderOf(file) == clean_header(ReadLine(file.body, 0))

\* C16: in the directory backend no two files hold the same header.
OneFilePerHeader ==
    kind = "folder" =>
        \A i, j \in 1..Len(disk) : HeaderOf(disk[i]) = HeaderOf(disk[j]) => i = j

\* The first commit with pending changes of a handle has returned or raised.
FirstCommitOver == pc = "idle" /\ last.op \in {"commit", "exit"} /\ last.flag /\ ncommits = 1

\* C17: a commit after deletes completes without error whether or not the
\* deleted headers are in the backend; afterwards the path holds none of
\* them and holds the pending updates.
DeleteThenCommit ==
    (FirstCommitOver /\ deleted # {}) =>
        /\ last.res = Ok
        /\ \A h \in deleted : ~InBackend(h)
        /\ \A i \in 1..Len(updated) : Persisted(updated[i].key) = updated[i].val

\* The entries of the path that carry a header, in scan or enumeration
\* order, each with its location: the offset of a header line of the file,
\* the name of a file of the directory or of a member of the archive.
HeaderLineStarts ==
    {p \in 0..(Len(disk) - 1) : (p = 0 \/ disk[p] = NL) /\ disk[p + 1] = Marker}

Occurrences(h) ==
    IF kind = "fasta"
    THEN {p \in HeaderLineStarts : clean_header(ReadLine(disk, p)) = h}
    ELSE {i \in 1..Len(disk) : HeaderOf(disk[i]) = h}

Min(S) == CHOOSE x \in S : \A y \in S : x <= y

FirstLocation(h) ==
    IF kind = "fasta" THEN Min(Occurrences(h)) ELSE disk[Min(Occurrences(h))].name

StoredHeaders == {h \in Headers : Occurrences(h) # {}}

WellFormedStore ==
    kind = "fasta" \/ \A i \in 1..Len(disk) : HeaderOf(disk[i]) # ValueError

\* C18: the index build of each backend maps a header carried by several
\* entries to the location of the first of them and raises no error.
FirstOccurrenceIndexed ==
    (index.built /\ WellFormedStore) =>
        /\ last.res # ValueError
        /\ Keys(index.map) = StoredHeaders
        /\ \A h \in StoredHeaders : Get(index.map, h) = FirstLocation(h)

\* C19: the index build of the directory and archive backends skips the
\* entries without a header line, indexes every other entry, and the reads
\* go on working for the records indexed.
MalformedSkipped ==
    (kind \in {"folder", "tar"} /\ last.op \in {"get", "contains", "headers", "items"}) =>
        /\ last.res # ValueError
        /\ index.built
        /\ Keys(index.map) = StoredHeaders
        /\ (last.op = "get" /\ last.key \in StoredHeaders) => last.res # KeyError
        /\ last.op = "contains" => (last.res = True <=> last.key \in StoredHeaders)

\* C20: between calls, every cache entry holds the sequence the path holds
\* for its header, also after commits.
CacheFresh ==
    pc = "idle" => \A i \in 1..Len(cache) : Persisted(cache[i].key) = cache[i].val

\* After a commit that deleted a header, a get was served from the cache.
CacheFreshWitness ==
    /\ last.op = "get"
    /\ ~last.flag
    /\ Has(cache, last.key)
    /\ ncommits > 0
    /\ deleted # {}

\* commit is called right after a commit with pending changes has returned
\* without error, no set or delete in between: it raises nothing and the
\* path is left (or, for a rewriting commit, is about to be left) holding
\* what it held.
SecondCommitStep ==
    (Committed /\ scope = "open" /\ last'.op \in {"commit", "exit"} /\ last'.res # Skipped)
    => /\ last'.res \in {Ok, Running}
       /\ path_exists' = path_exists
       /\ disk' = disk
       /\ pc' # "idle" => Content(todo') = disk

\* C21: commit called twice in succession completes without error both
\* times, and the second call leaves the path holding the same records, and
\* the directory the same files, as the first.
CommitIdempotent == [][SecondCommitStep]_vars

====
